---- MODULE Spec2Model ----
(***************************************************************************)
(* Model of the setlist-to-spotify pipeline: handleCreatePlaylist          *)
(* (src/src/index.ts) calling getAverageSetlist / fetchSetlistForYear      *)
(* (src/src/setlist-fetcher.ts), matchAllTracks / searchSpotifyTrack       *)
(* (src/src/index.ts, track matcher part) and createPlaylist               *)
(* (src/src/playlist-creator.ts).                                          *)
(*                                                                         *)
(* One pipeline invocation is a sequential async function.  Every external *)
(* call (axios.get / axios.post) is one action: the call is issued, the    *)
(* remote service answers nondeterministically, and the code that runs     *)
(* synchronously on the answer is part of the same action.                 *)
(*                                                                         *)
(* Text values the code inspects character by character (trim, template    *)
(* literals) are sequences of one-character strings.  Song names and       *)
(* track URIs are only compared for equality and are plain strings.        *)
(***************************************************************************)
EXTENDS Integers, Sequences, FiniteSets, TLC

(***************************************************************************)
(* Bounds of the model                                                     *)
(***************************************************************************)
\* setlists in one setlist.fm response
MaxSetlists == 2
\* sets in one response, over all its setlists
MaxSets == 2
\* songs in one response, over all its sets
MaxSongs == 3
\* year boundaries the wall clock may cross during one invocation
MaxTicks == 1

\* song names as setlist.fm returns them; "A" and "a" differ only in case
SongNames == {"A", "a", "B"}
\* track URIs the Spotify search may return
TrackUris == {"spotify:track:1", "spotify:track:2"}
\* ids the Spotify services hand out
UserIds == {"user1"}
PlaylistIds == {"pl1", "pl2"}
\* the wall-clock year when the invocation starts
ClockStartYears == {2024}

\* an absent optional value (year?: number, error.response?.status) is the
\* empty sequence, a present one the one-element sequence
None == <<>>
Some(v) == <<v>>
IsSome(o) == Len(o) = 1
\* x ?? d
OrElse(o, d) == IF IsSome(o) THEN o[1] ELSE d

\* error.response?.status of a failed axios call; None: no response at all
HttpErrorStatuses == {None, Some(401), Some(503)}

\* trackUri: string | null
NullUri == "null"

\* the character U+2014 of the playlist name template
EmDash == "U+2014"

(***************************************************************************)
(* The requests handleCreatePlaylist may be called with, and the           *)
(* environment it runs in                                                  *)
(***************************************************************************)
AccessTokens == {<<>>, <<" ">>, <<"t", "k">>}
ArtistIds == {<<>>, <<" ", " ">>, <<"i", "d">>}
ArtistNames == {<<>>, <<" ">>, <<"M", "u">>, <<" ", "X">>}
RequestYears == {None, Some(2023)}
Requests ==
    [artistId : ArtistIds, artistName : ArtistNames,
     year : RequestYears, accessToken : AccessTokens]
\* process.env.SETLISTFM_API_KEY: unset (or empty), or set
ApiKeys == {<<>>, <<"k">>}

(***************************************************************************)
(* setlist.fm responses: response.data.setlist is a sequence of setlists,  *)
(* setlist.sets.set a sequence of sets, set.song a sequence of songs of    *)
(* which only the name is read.  A field that is absent (undefined) makes  *)
(* the code skip the loop over it, exactly as an empty array does; both    *)
(* are the empty sequence here.                                            *)
(***************************************************************************)
SeqsUpTo(S, n) == UNION {[1..k -> S] : k \in 0..n}

RECURSIVE CountSongs(_)
CountSongs(sets) ==
    IF sets = <<>> THEN 0 ELSE Len(Head(sets)) + CountSongs(Tail(sets))

RECURSIVE SetSeqs(_, _)
\* sequences of at most nSets sets holding at most nSongs songs in all
SetSeqs(nSets, nSongs) ==
    IF nSets = 0 THEN {<<>>}
    ELSE {<<>>} \cup
         UNION {{<<s>> \o rest : rest \in SetSeqs(nSets - 1, nSongs - Len(s))}
                    : s \in SeqsUpTo(SongNames, nSongs)}

RECURSIVE SetlistSeqs(_, _, _)
\* sequences of at most nSetlists setlists holding at most nSets sets and
\* at most nSongs songs in all
SetlistSeqs(nSetlists, nSets, nSongs) ==
    IF nSetlists = 0 THEN {<<>>}
    ELSE {<<>>} \cup
         UNION {{<<sl>> \o rest :
                    rest \in SetlistSeqs(nSetlists - 1, nSets - Len(sl),
                                         nSongs - CountSongs(sl))}
                    : sl \in SetSeqs(nSets, nSongs)}

SetlistResponses == SetlistSeqs(MaxSetlists, MaxSets, MaxSongs)

(***************************************************************************)
(* Replies of the remote services to one axios call                        *)
(***************************************************************************)
OkReply(data) == [kind |-> "ok", data |-> data]
\* axios rejects with an AxiosError (axios.isAxiosError(error) is true)
AxiosError(status) == [kind |-> "axiosError", status |-> status]
\* anything else thrown inside the try block, e.g. the TypeError of reading
\* a field of a response body that is null
OtherError == [kind |-> "otherError"]

FailureReplies == {AxiosError(st) : st \in HttpErrorStatuses} \cup {OtherError}
SetlistReplies == {OkReply(r) : r \in SetlistResponses} \cup FailureReplies
\* limit: 1, so response.data.tracks.items holds no or one track
SearchReplies ==
    {OkReply(<<>>)} \cup {OkReply(<<[uri |-> u]>>) : u \in TrackUris}
        \cup FailureReplies
UserReplies == {OkReply([id |-> u]) : u \in UserIds} \cup FailureReplies
PlaylistReplies == {OkReply([id |-> p]) : p \in PlaylistIds} \cup FailureReplies
AddTracksReplies == {OkReply(<<>>)} \cup FailureReplies

(***************************************************************************)
(* Errors (src/src/error-handler.ts) and the completion of a function      *)
(***************************************************************************)
AuthenticationError(details) ==
    [name |-> "AuthenticationError", serviceName |-> "", details |-> details]
ExternalAPIError(serviceName, details) ==
    [name |-> "ExternalAPIError", serviceName |-> serviceName, details |-> details]
DataNotFoundError(details) ==
    [name |-> "DataNotFoundError", serviceName |-> "", details |-> details]
ValidationError(details) ==
    [name |-> "ValidationError", serviceName |-> "", details |-> details]
\* new Error(message), and the built-in errors (TypeError)
PlainError == [name |-> "Error", serviceName |-> "", details |-> None]
NoError == [name |-> "", serviceName |-> "", details |-> None]

\* the exception a reply makes axios or the code reading the body throw
AxiosThrown(status) ==
    [name |-> "AxiosError", serviceName |-> "", details |-> None, status |-> status]
TypeErrorThrown == [name |-> "TypeError", serviceName |-> "", details |-> None]
Thrown(reply) ==
    IF reply.kind = "axiosError" THEN AxiosThrown(reply.status) ELSE TypeErrorThrown
IsAxiosError(e) == e.name = "AxiosError"

\* logError(error, context): one console.error entry
LogEntry(error, context) == [errorType |-> error.name, context |-> context]

\* a function returns a value or throws, and has logged entries on the way
Return(v, logged) == [ok |-> TRUE, value |-> v, error |-> NoError, logged |-> logged]
Throw(e, logged) == [ok |-> FALSE, value |-> <<>>, error |-> e, logged |-> logged]

(***************************************************************************)
(* fetchSetlistForYear, lines 125-152: count and rank                      *)
(***************************************************************************)
RECURSIVE Flatten(_)
\* the order in which the three nested for-loops visit the songs
Flatten(seqOfSeqs) ==
    IF seqOfSeqs = <<>> THEN <<>>
    ELSE Head(seqOfSeqs) \o Flatten(Tail(seqOfSeqs))

SongsVisited(setlists) == Flatten(Flatten(setlists))

\* index of the entry of a Map (a sequence of <<key, value>> in insertion
\* order) with the given key, 0 if there is none
MapIndex(map, key) ==
    IF \E i \in 1..Len(map) : map[i][1] = key
    THEN CHOOSE i \in 1..Len(map) : map[i][1] = key
    ELSE 0

\* names that differ in case only are counted as one
MapIncrementCaseless(map, name) ==
    LET key == IF name = "a" THEN "A" ELSE name
        i == MapIndex(map, key)
    IN  IF i = 0 THEN Append(map, <<key, 1>>)
        ELSE [map EXCEPT ![i] = <<key, map[i][2] + 1>>]

\* every occurrence makes an entry of its own
MapIncrementAppending(map, name) == Append(map, <<name, 1>>)

\* songFrequency.set(name, (songFrequency.get(name) || 0) + 1): a new key is
\* appended, an existing key keeps its place
MapIncrement(map, name) ==
    LET i == MapIndex(map, name) IN
    IF i = 0 THEN Append(map, <<name, 1>>)
    ELSE [map EXCEPT ![i] = <<name, map[i][2] + 1>>]

RECURSIVE CountFrequencies(_, _)
CountFrequencies(map, names) ==
    IF names = <<>> THEN map
    ELSE CountFrequencies(MapIncrement(map, Head(names)), Tail(names))

RECURSIVE InsertByCount(_, _)
\* a sort that is not stable: an entry goes before the entries of its count
InsertByCountUnstable(sorted, e) ==
    IF sorted = <<>> THEN <<e>>
    ELSE IF Head(sorted)[2] > e[2]
         THEN <<Head(sorted)>> \o InsertByCount(Tail(sorted), e)
         ELSE <<e>> \o sorted

\* place entry e behind every entry that does not sort after it:
\* the comparator b[1] - a[1] of a stable sort
InsertByCount(sorted, e) ==
    IF sorted = <<>> THEN <<e>>
    ELSE IF Head(sorted)[2] >= e[2]
         THEN <<Head(sorted)>> \o InsertByCount(Tail(sorted), e)
         ELSE <<e>> \o sorted

RECURSIVE SortByFrequency(_)
\* Array.from(entries).sort((a, b) => b[1] - a[1]); Array.prototype.sort is
\* stable, so the result is the one of any stable sort
SortByFrequency(entries) ==
    IF entries = <<>> THEN <<>>
    ELSE InsertByCount(SortByFrequency(SubSeq(entries, 1, Len(entries) - 1)),
                       entries[Len(entries)])

\* .map(([name], index) => ({name, position: index + 1}))
AssignPositions(entries) ==
    [i \in 1..Len(entries) |-> [name |-> entries[i][1], position |-> i]]

ParseSetlists(setlists) ==
    AssignPositions(SortByFrequency(CountFrequencies(<<>>, SongsVisited(setlists))))

(***************************************************************************)
(* Text                                                                    *)
(***************************************************************************)
IsWhitespace(c) == c \in {" ", "\t", "\n"}

RECURSIVE TrimStart(_)
TrimStart(s) ==
    IF s # <<>> /\ IsWhitespace(Head(s)) THEN TrimStart(Tail(s)) ELSE s

RECURSIVE TrimEnd(_)
TrimEnd(s) ==
    IF s # <<>> /\ IsWhitespace(s[Len(s)])
    THEN TrimEnd(SubSeq(s, 1, Len(s) - 1))
    ELSE s

\* String.prototype.trim
Trim(s) == TrimEnd(TrimStart(s))

\* the check without the trim
IsBlankUntrimmed(s) == s = <<>>

\* !value || value.trim() === ''
IsBlank(s) == s = <<>> \/ Trim(s) = <<>>

DigitChar(d) == <<"0", "1", "2", "3", "4", "5", "6", "7", "8", "9">>[d + 1]

RECURSIVE Digits(_)
Digits(n) ==
    IF n < 10 THEN <<DigitChar(n)>>
    ELSE Append(Digits(n \div 10), DigitChar(n % 10))

\* `${year}` for an integer year
NumberToString(n) == IF n < 0 THEN <<"-">> \o Digits(0 - n) ELSE Digits(n)

(***************************************************************************)
(* Setlist fetcher (src/src/setlist-fetcher.ts)                            *)
(***************************************************************************)
\* a fetch failure taken for a year without songs
FetchSetlistCatchSwallowing(e, artistId, year) == Return(<<>>, <<>>)

\* the catch block of fetchSetlistForYear
FetchSetlistCatch(e, artistId, year) ==
    IF IsAxiosError(e)
    THEN LET apiError == ExternalAPIError("setlist.fm",
                             Some([statusCode |-> e.status, year |-> year]))
         IN  Throw(apiError,
                   <<LogEntry(apiError, Some([artistId |-> artistId, year |-> year]))>>)
    ELSE Throw(e, <<>>)

\* one call of fetchSetlistForYear, given what axios.get comes back with
FetchSetlistForYear(reply, artistId, year) ==
    IF reply.kind = "ok"
    THEN Return(ParseSetlists(reply.data), <<>>)
    ELSE FetchSetlistCatch(Thrown(reply), artistId, year)

\* the retry asks for the year it has just asked for
RetryYearSame(targetYear) == targetYear

\* const retryYear = targetYear - 1
RetryYear(targetYear) == targetYear - 1

\* a retry loop: every fetch without songs is followed by another fetch
AfterFetchLooping(attempt, fetchedSongs) ==
    IF Len(fetchedSongs) # 0 THEN "return" ELSE "retry"

\* the year before is fetched whatever the first fetch returned
AfterFetchAlwaysRetrying(attempt, fetchedSongs) ==
    IF attempt = 1 THEN "retry"
    ELSE IF Len(fetchedSongs) # 0 THEN "return"
    ELSE "nodata"

\* what getAverageSetlist does with the songs of its attempt-th fetch:
\* return them, fetch the previous year, or give up
AfterFetch(attempt, fetchedSongs) ==
    IF Len(fetchedSongs) # 0 THEN "return"
    ELSE IF attempt = 1 THEN "retry"
    ELSE "nodata"

\* the DataNotFoundError of getAverageSetlist and its log entry
NoSetlistData(artistId, targetYear, retryYear) ==
    LET ctx == [artistId |-> artistId, targetYear |-> targetYear,
                retryYear |-> retryYear]
        error == DataNotFoundError(Some(ctx))
    IN  Throw(error, <<LogEntry(error, Some(ctx))>>)

\* a catch block that rethrows ExternalAPIError only and wraps the rest
GetAverageSetlistCatchWrapping(e, artistId, targetYear) ==
    LET ctx == Some([artistId |-> artistId, year |-> targetYear]) IN
    IF e.name = "ExternalAPIError"
    THEN Throw(e, <<>>)
    ELSE LET wrappedError == ExternalAPIError("setlist.fm", None)
         IN  Throw(wrappedError, <<LogEntry(wrappedError, ctx)>>)

\* a catch block that wraps axios errors only and rethrows the rest
GetAverageSetlistCatchRethrowing(e, artistId, targetYear) ==
    LET ctx == Some([artistId |-> artistId, year |-> targetYear]) IN
    IF IsAxiosError(e)
    THEN LET apiError == ExternalAPIError("setlist.fm",
                             Some([statusCode |-> e.status]))
         IN  Throw(apiError, <<LogEntry(apiError, ctx)>>)
    ELSE Throw(e, <<>>)

\* the catch block of getAverageSetlist
GetAverageSetlistCatch(e, artistId, targetYear) ==
    LET ctx == Some([artistId |-> artistId, year |-> targetYear]) IN
    IF e.name \in {"ExternalAPIError", "DataNotFoundError"}
    THEN Throw(e, <<>>)
    ELSE IF IsAxiosError(e)
    THEN LET apiError == ExternalAPIError("setlist.fm",
                             Some([statusCode |-> e.status]))
         IN  Throw(apiError, <<LogEntry(apiError, ctx)>>)
    ELSE LET wrappedError == ExternalAPIError("setlist.fm", None)
         IN  Throw(wrappedError, <<LogEntry(wrappedError, ctx)>>)

(***************************************************************************)
(* Track matcher (src/src/index.ts, from line 88)                          *)
(***************************************************************************)
NotFound(songName) == [songName |-> songName, trackUri |-> NullUri, found |-> FALSE]

\* every failed search is thrown, as ExternalAPIError unless it is a 401
SearchSpotifyTrackThrowing(reply, songName) ==
    IF reply.kind = "ok"
    THEN IF Len(reply.data) > 0
         THEN Return([songName |-> songName, trackUri |-> reply.data[1].uri,
                      found |-> TRUE], <<>>)
         ELSE Return(NotFound(songName), <<>>)
    ELSE LET e == Thrown(reply) IN
         IF IsAxiosError(e) /\ e.status = Some(401)
         THEN Throw(AuthenticationError(Some([statusCode |-> e.status])), <<>>)
         ELSE Throw(ExternalAPIError("Spotify", None), <<>>)

\* no failed search is thrown, a 401 neither
SearchSpotifyTrackLenient(reply, songName) ==
    IF reply.kind = "ok" /\ Len(reply.data) > 0
    THEN Return([songName |-> songName, trackUri |-> reply.data[1].uri,
                 found |-> TRUE], <<>>)
    ELSE Return(NotFound(songName), <<>>)

\* one call of searchSpotifyTrack, given what axios.get comes back with
SearchSpotifyTrack(reply, songName) ==
    IF reply.kind = "ok"
    THEN IF Len(reply.data) > 0
         THEN Return([songName |-> songName, trackUri |-> reply.data[1].uri,
                      found |-> TRUE], <<>>)
         ELSE Return(NotFound(songName), <<>>)
    ELSE LET e == Thrown(reply) IN
         IF IsAxiosError(e) /\ e.status = Some(401)
         THEN Throw(AuthenticationError(Some([statusCode |-> e.status])), <<>>)
         ELSE Return(NotFound(songName), <<>>)

\* only the songs that were found get a result
PushResultIfFound(results, result) ==
    IF result.found THEN Append(results, result) ELSE results

\* results.push(result) of matchAllTracks
\* the result takes the place of the earlier ones
PushResultOverwriting(results, result) == <<result>>

\* a song that follows one that was not found is not found either
PushResultCarrying(results, result) ==
    IF results # <<>> /\ ~results[Len(results)].found
    THEN Append(results, NotFound(result.songName))
    ELSE Append(results, result)

PushResult(results, result) == Append(results, result)

(***************************************************************************)
(* Playlist creator (src/src/playlist-creator.ts)                          *)
(***************************************************************************)
\* the catch blocks of getUserId, createSpotifyPlaylist and
\* addTracksToPlaylist, which differ in the context they log only
SpotifyCatch(e, context) ==
    IF IsAxiosError(e)
    THEN IF e.status = Some(401)
         THEN LET authError == AuthenticationError(Some([statusCode |-> e.status]))
              IN  Throw(authError, <<LogEntry(authError, context)>>)
         ELSE LET apiError == ExternalAPIError("Spotify",
                                  Some([statusCode |-> e.status]))
              IN  Throw(apiError, <<LogEntry(apiError, context)>>)
    ELSE Throw(e, <<>>)

\* a failure of the call is answered with an empty id
GetUserIdDefaulting(reply) ==
    IF reply.kind = "ok" THEN Return(reply.data.id, <<>>) ELSE Return("", <<>>)

GetUserId(reply) ==
    IF reply.kind = "ok" THEN Return(reply.data.id, <<>>)
    ELSE SpotifyCatch(Thrown(reply), None)

\* a hyphen in the place of U+2014
PlaylistNameHyphen(artistName, year) ==
    artistName \o <<" ", "-", " ">>
        \o <<"A", "v", "e", "r", "a", "g", "e", " ",
             "S", "e", "t", "l", "i", "s", "t", " ">>
        \o NumberToString(year)

\* `${artistName} <U+2014> Average Setlist ${year}`
PlaylistName(artistName, year) ==
    artistName \o <<" ", EmDash, " ">>
        \o <<"A", "v", "e", "r", "a", "g", "e", " ",
             "S", "e", "t", "l", "i", "s", "t", " ">>
        \o NumberToString(year)

\* `Average setlist for ${artistName} in ${year}`
PlaylistDescription(artistName, year) ==
    <<"A", "v", "e", "r", "a", "g", "e", " ", "s", "e", "t", "l", "i", "s", "t",
      " ", "f", "o", "r", " ">> \o artistName \o <<" ", "i", "n", " ">>
        \o NumberToString(year)

\* the body posted to /users/{userId}/playlists
CreatePlaylistBody(artistName, year) ==
    [name |-> PlaylistName(artistName, year),
     public |-> FALSE,
     description |-> PlaylistDescription(artistName, year)]

\* a failed call is taken for one that created the first playlist
CreateSpotifyPlaylistSwallowing(reply, artistName, year) ==
    IF reply.kind = "ok" THEN Return(reply.data.id, <<>>)
    ELSE Return("pl1", <<>>)

CreateSpotifyPlaylist(reply, artistName, year) ==
    IF reply.kind = "ok" THEN Return(reply.data.id, <<>>)
    ELSE SpotifyCatch(Thrown(reply), Some([artistName |-> artistName, year |-> year]))

\* the call is issued although there is no track
NoTracksNever(uris) == FALSE

\* trackUris.length === 0: addTracksToPlaylist returns without a call
NoTracks(uris) == Len(uris) = 0

\* the list sent in the opposite order
AddTracksBodyReversed(uris) ==
    [uris |-> [i \in 1..Len(uris) |-> uris[Len(uris) + 1 - i]]]

\* the body posted to /playlists/{playlistId}/tracks
AddTracksBody(uris) == [uris |-> uris]

\* the failure of the call is swallowed
AddTracksToPlaylistSwallowing(reply, playlistId, uris) == Return(<<>>, <<>>)

AddTracksToPlaylist(reply, playlistId, uris) ==
    IF reply.kind = "ok" THEN Return(<<>>, <<>>)
    ELSE SpotifyCatch(Thrown(reply),
                      Some([playlistId |-> playlistId, trackCount |-> Len(uris)]))

\* every caught error is wrapped, the typed ones as well
CreatePlaylistCatchWrapping(e, artistName, year, uris) ==
    LET first == LogEntry(e, Some([artistName |-> artistName, year |-> year,
                                   trackCount |-> Len(uris)]))
    IN  Throw(PlainError,
              <<first, LogEntry(PlainError,
                                Some([artistName |-> artistName, year |-> year]))>>)

\* the catch block of createPlaylist
CreatePlaylistCatch(e, artistName, year, uris) ==
    LET first == LogEntry(e, Some([artistName |-> artistName, year |-> year,
                                   trackCount |-> Len(uris)]))
    IN  IF e.name \in {"AuthenticationError", "ExternalAPIError"}
        THEN Throw(e, <<first>>)
        ELSE Throw(PlainError,
                   <<first, LogEntry(PlainError,
                                     Some([artistName |-> artistName, year |-> year]))>>)

\* what createPlaylist returns
PlaylistCreationResult(id, uris, year) ==
    [playlistId |-> id, tracksAdded |-> Len(uris), year |-> year]

(***************************************************************************)
(* Orchestrator (src/src/index.ts, handleCreatePlaylist)                   *)
(***************************************************************************)
\* the checks without the one of the API key
ValidateRequestWithoutKey(req, key) ==
    IF IsBlank(req.accessToken)
    THEN Some(ValidationError(Some([field |-> "accessToken"])))
    ELSE IF IsBlank(req.artistId)
    THEN Some(ValidationError(Some([field |-> "artistId"])))
    ELSE IF IsBlank(req.artistName)
    THEN Some(ValidationError(Some([field |-> "artistName"])))
    ELSE None

\* the three checks before the try block, then the API key check; None when
\* the request passes
ValidateRequest(req, key) ==
    IF IsBlank(req.accessToken)
    THEN Some(ValidationError(Some([field |-> "accessToken"])))
    ELSE IF IsBlank(req.artistId)
    THEN Some(ValidationError(Some([field |-> "artistId"])))
    ELSE IF IsBlank(req.artistName)
    THEN Some(ValidationError(Some([field |-> "artistName"])))
    ELSE IF key = <<>>
    THEN Some(ValidationError(Some([field |-> "SETLISTFM_API_KEY"])))
    ELSE None

IsFoundResult(r) == r.found /\ r.trackUri # NullUri

\* the map without the filter
CollectTrackUrisUnfiltered(trackResults) ==
    [i \in 1..Len(trackResults) |-> trackResults[i].trackUri]

\* the kept URIs, last result first
CollectTrackUrisReversed(trackResults) ==
    LET kept == SelectSeq(trackResults, IsFoundResult)
    IN  [i \in 1..Len(kept) |-> kept[Len(kept) + 1 - i].trackUri]

\* trackResults.filter(found && trackUri !== null).map(trackUri)
CollectTrackUris(trackResults) ==
    LET kept == SelectSeq(trackResults, IsFoundResult)
    IN  [i \in 1..Len(kept) |-> kept[i].trackUri]

\* the branch of the catch block for a thrown value that is not an Error
HandleCreatePlaylistCatchGeneric(e) == PlainError

\* the catch block of handleCreatePlaylist: every thrown value is an Error
\* and is rethrown as it is
HandleCreatePlaylistCatch(e) == e

(***************************************************************************)
(* Error handler (src/src/error-handler.ts)                                *)
(***************************************************************************)
\* the chain without its branch for DataNotFoundError
GetStatusCodeNoNotFound(e) ==
    CASE e.name = "AuthenticationError" -> 401
      [] e.name = "ExternalAPIError" -> 502
      [] e.name = "ValidationError" -> 400
      [] OTHER -> 500

\* the instanceof chain of getStatusCode
GetStatusCode(e) ==
    CASE e.name = "AuthenticationError" -> 401
      [] e.name = "ExternalAPIError" -> 502
      [] e.name = "DataNotFoundError" -> 404
      [] e.name = "ValidationError" -> 400
      [] OTHER -> 500

\* the characters of error.name
NameText(name) ==
    CASE name = "AuthenticationError" ->
           <<"A", "u", "t", "h", "e", "n", "t", "i", "c", "a", "t", "i",
             "o", "n", "E", "r", "r", "o", "r">>
      [] name = "ExternalAPIError" ->
           <<"E", "x", "t", "e", "r", "n", "a", "l", "A", "P", "I", "E",
             "r", "r", "o", "r">>
      [] name = "DataNotFoundError" ->
           <<"D", "a", "t", "a", "N", "o", "t", "F", "o", "u", "n", "d",
             "E", "r", "r", "o", "r">>
      [] name = "ValidationError" ->
           <<"V", "a", "l", "i", "d", "a", "t", "i", "o", "n", "E", "r",
             "r", "o", "r">>
      [] name = "TypeError" ->
           <<"T", "y", "p", "e", "E", "r", "r", "o", "r">>
      [] name = "AxiosError" ->
           <<"A", "x", "i", "o", "s", "E", "r", "r", "o", "r">>
      [] name = "Error" ->
           <<"E", "r", "r", "o", "r">>

LowerCase ==
    <<"a", "b", "c", "d", "e", "f", "g", "h", "i", "j", "k", "l",
      "m", "n", "o", "p", "q", "r", "s", "t", "u", "v", "w", "x",
      "y", "z">>
UpperCase ==
    <<"A", "B", "C", "D", "E", "F", "G", "H", "I", "J", "K", "L",
      "M", "N", "O", "P", "Q", "R", "S", "T", "U", "V", "W", "X",
      "Y", "Z">>
\* String.prototype.toUpperCase on the letters a-z
ToUpperCase(text) ==
    [i \in DOMAIN text |->
        IF \E k \in DOMAIN LowerCase : LowerCase[k] = text[i]
        THEN UpperCase[CHOOSE k \in DOMAIN LowerCase : LowerCase[k] = text[i]]
        ELSE text[i]]

\* text.replace(/Error$/, '')
DropErrorSuffix(text) ==
    LET suffix == <<"E", "r", "r", "o", "r">> IN
    IF Len(text) >= Len(suffix)
        /\ SubSeq(text, Len(text) - Len(suffix) + 1, Len(text)) = suffix
    THEN SubSeq(text, 1, Len(text) - Len(suffix))
    ELSE text

\* error.name.replace(/Error$/, '').toUpperCase()
ErrorCode(e) == ToUpperCase(DropErrorSuffix(NameText(e.name)))

\* the details are left out of every response
ErrorDetailsNone(e) == None

\* the details of formatErrorResponse; None when the body has none
ErrorDetails(e) ==
    CASE e.name \in {"AuthenticationError", "DataNotFoundError",
                     "ValidationError"} -> e.details
      [] e.name = "ExternalAPIError" ->
            IF IsSome(e.details)
            THEN Some(e.details[1] @@ [serviceName |-> e.serviceName])
            ELSE Some([serviceName |-> e.serviceName])
      [] OTHER -> None

\* formatErrorResponse; message is error.message, whose text is not kept
FormatErrorResponse(e) == [code |-> ErrorCode(e), details |-> ErrorDetails(e)]

\* handleError: the entry it logs and the response it makes
HandleError(e, context) ==
    [logged |-> <<LogEntry(e, context)>>,
     statusCode |-> GetStatusCode(e),
     body |-> FormatErrorResponse(e)]

(***************************************************************************)
(* Netlify functions (src/netlify/functions) and the token exchange        *)
(***************************************************************************)
\* validateEnvironment: the four variables are set and not blank
ValidateEnvironment(environment, key) ==
    IF \/ IsBlank(environment.SPOTIFY_CLIENT_ID)
       \/ IsBlank(environment.SPOTIFY_CLIENT_SECRET)
       \/ IsBlank(environment.SPOTIFY_REDIRECT_URI)
       \/ IsBlank(key)
    THEN Throw(PlainError, <<>>)
    ELSE Return(environment, <<>>)

IsDigitChar(c) == \E d \in 0..9 : DigitChar(d) = c
DigitOf(c) == CHOOSE d \in 0..9 : DigitChar(d) = c
RECURSIVE LeadingDigits(_)
\* the longest prefix of digits
LeadingDigits(text) ==
    IF text # <<>> /\ IsDigitChar(Head(text))
    THEN <<Head(text)>> \o LeadingDigits(Tail(text))
    ELSE <<>>
RECURSIVE ValueOfDigits(_)
ValueOfDigits(digits) ==
    IF digits = <<>> THEN 0
    ELSE 10 * ValueOfDigits(SubSeq(digits, 1, Len(digits) - 1))
            + DigitOf(digits[Len(digits)])

\* parseInt(text, 10): white space, a sign, then the digits up to the first
\* character that is none; None stands for NaN
ParseInt(text) ==
    LET t == TrimStart(text)
        signed == t # <<>> /\ Head(t) \in {"+", "-"}
        digits == LeadingDigits(IF signed THEN Tail(t) ELSE t)
    IN  IF digits = <<>> THEN None
        ELSE IF signed /\ Head(t) = "-" THEN Some(0 - ValueOfDigits(digits))
        ELSE Some(ValueOfDigits(digits))

\* authHeader.match(/^Bearer\s+(.+)$/i): the group, None without a match
BearerToken(header) ==
    LET word == <<"B", "E", "A", "R", "E", "R">>
        rest == SubSeq(header, Len(word) + 1, Len(header))
        afterSpace == TrimStart(rest)
        spaces == Len(rest) - Len(afterSpace)
        group == IF afterSpace # <<>> THEN afterSpace
                 ELSE SubSeq(rest, Len(rest), Len(rest))
    IN  IF /\ Len(header) > Len(word)
           /\ ToUpperCase(SubSeq(header, 1, Len(word))) = word
           /\ spaces >= 1
           /\ Len(rest) - Len(group) >= 1
           /\ \A i \in DOMAIN group : group[i] # "\n"
        THEN Some(group)
        ELSE None

\* create-playlist.ts, lines 55-69: the header first, then the parameter
AccessTokenOf(ev) ==
    LET bearer == IF ev.authorization # <<>> THEN BearerToken(ev.authorization)
                  ELSE None
    IN  IF IsSome(bearer) /\ bearer[1] # <<>> THEN bearer[1]
        ELSE ev.access_token

\* create-playlist.ts, lines 21-84: the request built from the event
CreatePlaylistRequestOf(ev, environment, key) ==
    LET checked == ValidateEnvironment(environment, key)
        parsed == ParseInt(ev.year)
    IN  IF ~checked.ok THEN checked
        ELSE IF ev.artistId = <<>>
        THEN Throw(ValidationError(Some([field |-> "artistId"])), <<>>)
        ELSE IF ev.artistName = <<>>
        THEN Throw(ValidationError(Some([field |-> "artistName"])), <<>>)
        ELSE IF ev.year # <<>> /\ parsed = None
        THEN Throw(ValidationError(Some([field |-> "year", value |-> ev.year])),
                   <<>>)
        ELSE IF AccessTokenOf(ev) = <<>>
        THEN Throw(ValidationError(Some([field |-> "access_token"])), <<>>)
        ELSE Return([artistId |-> ev.artistId, artistName |-> ev.artistName,
                     year |-> IF ev.year # <<>> THEN parsed ELSE None,
                     accessToken |-> AccessTokenOf(ev)], <<>>)

\* the context the catch block of the create-playlist function logs
CreatePlaylistContext(ev) ==
    Some([artistId |-> ev.artistId, artistName |-> ev.artistName,
          year |-> IF ev.year # <<>> THEN ParseInt(ev.year) ELSE None])

\* the catch block rethrows instead of answering
ErrorResponseUnhandled(handled) == [statusCode |-> 0]

\* the response of the catch block of either function
ErrorResponse(handled) ==
    [statusCode |-> handled.statusCode, contentType |-> "application/json",
     body |-> [error |-> handled.body]]

\* create-playlist.ts, lines 90-96
ResultResponse(res) ==
    [statusCode |-> 200, contentType |-> "application/json", body |-> res]

\* callback.ts, lines 50-56
RedirectResponse(tokenResponse) ==
    [statusCode |-> 302,
     location |-> <<"/", "?", "a", "c", "c", "e", "s", "s", "_", "t", "o", "k", "e", "n", "=">>
                      \o tokenResponse.access_token,
     body |-> <<>>]

\* the exchange takes every reply of the token endpoint for a token response
ExchangeCodeForTokenUnchecked(reply) ==
    Return([access_token |-> <<"t", "k">>], <<>>)

\* exchangeCodeForToken, given what fetch and response.json() come back
\* with: a response that is ok, one that is not, with or without a JSON
\* body, a rejected fetch, or an ok response whose body is no JSON
ExchangeCodeForToken(reply) ==
    CASE reply.kind = "ok" -> Return(reply.data, <<>>)
      [] reply.kind = "notOk" ->
            Throw(AuthenticationError(
                      Some(IF IsSome(reply.errorData)
                           THEN reply.errorData[1] @@ [statusCode |-> reply.status]
                           ELSE [statusCode |-> reply.status])), <<>>)
      [] OTHER -> Throw(AuthenticationError(None), <<>>)

(***************************************************************************)
(* State of one invocation of handleCreatePlaylist                         *)
(***************************************************************************)
VARIABLES
    request,      \* the CreatePlaylistRequest
    apiKey,       \* process.env.SETLISTFM_API_KEY
    clock,        \* new Date().getFullYear(), were it read now
    ticks,        \* year boundaries crossed since the start
    pc,           \* the await the invocation is suspended at
    targetYear,   \* getAverageSetlist: targetYear
    songs,        \* handleCreatePlaylist: songs
    songIdx,      \* matchAllTracks: index of the song of the for loop
    results,      \* matchAllTracks: results
    trackUris,    \* handleCreatePlaylist: trackUris
    actualYear,   \* handleCreatePlaylist: actualYear
    userId,       \* createPlaylist: userId
    playlistId,   \* createPlaylist: playlistId
    result,       \* the PlaylistCreationResult the promise resolves with
    stageError,   \* handleCreatePlaylist: the error its catch block caught
    error,        \* the error the promise rejects with
    calls,        \* the external calls issued so far, with their outcome
    logs,         \* the logError entries written so far
    response,     \* fetchSetlistForYear: response.data.setlist
    sortedSongs,  \* fetchSetlistForYear: sortedSongs
    event,        \* the HandlerEvent of a Netlify function
    env,          \* process.env, the Spotify settings
    httpResponse, \* the HandlerResponse the function returned
    other,        \* the locals of a second, suspended invocation
    deadline      \* the calls issued when the time limit of the function
                  \* passed, none while it has not passed

vars ==
    <<request, apiKey, clock, ticks, pc, targetYear, songs, songIdx, results,
      trackUris, actualYear, userId, playlistId, result, stageError, error,
      calls, logs, response, sortedSongs, event, env, httpResponse, other,
      deadline>>

\* what handleCreatePlaylist and the functions it calls never touch
handlerVars == <<event, env, httpResponse, other, deadline>>

NoResult == [playlistId |-> "", tracksAdded |-> 0, year |-> 0]

\* the locals of an invocation that has not run yet
Fresh ==
    /\ ticks = 0
    /\ targetYear = 0
    /\ songs = <<>>
    /\ songIdx = 0
    /\ results = <<>>
    /\ trackUris = <<>>
    /\ actualYear = 0
    /\ userId = ""
    /\ playlistId = ""
    /\ result = NoResult
    /\ stageError = NoError
    /\ error = NoError
    /\ calls = <<>>
    /\ logs = <<>>

\* a HandlerEvent: the query string parameters and the authorization
\* header, the empty text for one that is absent
NoEvent ==
    [artistId |-> <<>>, artistName |-> <<>>, year |-> <<>>,
     authorization |-> <<>>, access_token |-> <<>>, code |-> <<>>,
     error |-> <<>>]
FullEnv ==
    [SPOTIFY_CLIENT_ID |-> <<"c">>, SPOTIFY_CLIENT_SECRET |-> <<"s">>,
     SPOTIFY_REDIRECT_URI |-> <<"r">>]
NoResponse == [statusCode |-> 0]
NoLocals == [pc |-> "none"]

\* handleCreatePlaylist called on its own: no function, no second invocation
NoHandler ==
    /\ event = NoEvent
    /\ env = FullEnv
    /\ httpResponse = NoResponse
    /\ other = NoLocals
    /\ deadline = None

Init ==
    /\ NoHandler
    /\ request \in Requests
    /\ apiKey \in ApiKeys
    /\ clock \in ClockStartYears
    /\ pc = "start"
    /\ Fresh
    /\ response = <<>>
    /\ sortedSongs = <<>>

\* what the call log keeps of a reply
ReplySummary(reply) ==
    [kind |-> reply.kind,
     status |-> IF reply.kind = "axiosError" THEN reply.status ELSE None]

\* the promise of handleCreatePlaylist rejects
Reject(e, logged) ==
    /\ pc' = "failed"
    /\ stageError' = e
    /\ error' = HandleCreatePlaylistCatch(e)
    /\ logs' = logs \o logged

\* matchAllTracks is entered with the songs getAverageSetlist returned
StartMatching(fetchedSongs) ==
    /\ songs' = fetchedSongs
    /\ songIdx' = 1
    /\ pc' = "search"

\* handleCreatePlaylist up to its first await: validation, then
\* getAverageSetlist up to the first fetch
Start ==
    /\ UNCHANGED handlerVars
    /\ pc = "start"
    /\ LET invalid == ValidateRequest(request, apiKey) IN
       IF IsSome(invalid)
       THEN /\ Reject(invalid[1], <<>>)
            /\ UNCHANGED targetYear
       ELSE /\ targetYear' = OrElse(request.year, clock)
            /\ pc' = "fetch1"
            /\ UNCHANGED <<stageError, error, logs>>
    /\ UNCHANGED <<request, apiKey, clock, ticks, songs, songIdx, results,
                   trackUris, actualYear, userId, playlistId, result, calls,
                   response, sortedSongs>>

\* await fetchSetlistForYear(...) of getAverageSetlist, first or second
FetchSetlistFrom(replies) ==
    /\ UNCHANGED handlerVars
    /\ pc \in {"fetch1", "fetch2"}
    /\ \E reply \in replies :
        LET attempt == IF pc = "fetch1" THEN 1 ELSE 2
            year == IF attempt = 1 THEN targetYear ELSE RetryYear(targetYear)
            fetched == FetchSetlistForYear(reply, request.artistId, year)
            call == [op |-> "fetchSetlist", artistId |-> request.artistId,
                     year |-> year, reply |-> ReplySummary(reply),
                     songs |-> fetched.value]
            next == IF fetched.ok THEN AfterFetch(attempt, fetched.value)
                    ELSE "throw"
            thrown ==
                IF next = "nodata"
                THEN NoSetlistData(request.artistId, targetYear,
                                   RetryYear(targetYear))
                ELSE fetched
            caught == GetAverageSetlistCatch(thrown.error, request.artistId,
                                             targetYear)
        IN  /\ calls' = Append(calls, call)
            /\ CASE next = "return" ->
                        /\ StartMatching(fetched.value)
                        /\ UNCHANGED <<stageError, error, logs>>
                 [] next = "retry" ->
                        /\ pc' = "fetch2"
                        /\ UNCHANGED <<songs, songIdx, stageError, error, logs>>
                 [] OTHER ->
                        /\ Reject(caught.error, thrown.logged \o caught.logged)
                        /\ UNCHANGED <<songs, songIdx>>
    /\ UNCHANGED <<request, apiKey, clock, ticks, targetYear, results,
                   trackUris, actualYear, userId, playlistId, result,
                   response, sortedSongs>>

FetchSetlist == FetchSetlistFrom(SetlistReplies)

\* await searchSpotifyTrack(...) of the for loop of matchAllTracks; after
\* the last song handleCreatePlaylist goes on up to the first await of
\* createPlaylist
SearchTrack ==
    /\ UNCHANGED handlerVars
    /\ pc = "search"
    /\ \E reply \in SearchReplies :
        LET song == songs[songIdx]
            searched == SearchSpotifyTrack(reply, song.name)
            call == [op |-> "search", song |-> song.name,
                     artist |-> request.artistName, limit |-> 1,
                     token |-> request.accessToken,
                     reply |-> ReplySummary(reply),
                     items |-> IF reply.kind = "ok" THEN Len(reply.data) ELSE 0,
                     data |-> IF reply.kind = "ok" THEN reply.data ELSE <<>>]
            pushed == PushResult(results, searched.value)
        IN  /\ calls' = Append(calls, call)
            /\ IF ~searched.ok
               THEN /\ Reject(searched.error, searched.logged)
                    /\ UNCHANGED <<songIdx, results, trackUris, actualYear>>
               ELSE /\ results' = pushed
                    /\ UNCHANGED <<stageError, error, logs>>
                    /\ IF songIdx < Len(songs)
                       THEN /\ songIdx' = songIdx + 1
                            /\ UNCHANGED <<pc, trackUris, actualYear>>
                       ELSE /\ trackUris' = CollectTrackUris(pushed)
                            /\ actualYear' = OrElse(request.year, clock)
                            /\ pc' = "getUser"
                            /\ UNCHANGED songIdx
    /\ UNCHANGED <<request, apiKey, clock, ticks, targetYear, songs, userId,
                   playlistId, result, response, sortedSongs>>

\* a step of createPlaylist throws: its catch block, then the one of
\* handleCreatePlaylist
RejectCreatePlaylist(thrown) ==
    LET caught == CreatePlaylistCatch(thrown.error, request.artistName,
                                      actualYear, trackUris)
    IN  Reject(caught.error, thrown.logged \o caught.logged)

\* await getUserId(accessToken)
GetUser ==
    /\ UNCHANGED handlerVars
    /\ pc = "getUser"
    /\ \E reply \in UserReplies :
        LET got == GetUserId(reply)
            call == [op |-> "getUser", token |-> request.accessToken,
                     reply |-> ReplySummary(reply)]
        IN  /\ calls' = Append(calls, call)
            /\ IF got.ok
               THEN /\ userId' = got.value
                    /\ pc' = "create"
                    /\ UNCHANGED <<stageError, error, logs>>
               ELSE /\ RejectCreatePlaylist(got)
                    /\ UNCHANGED userId
    /\ UNCHANGED <<request, apiKey, clock, ticks, targetYear, songs, songIdx,
                   results, trackUris, actualYear, playlistId, result,
                   response, sortedSongs>>

\* await createSpotifyPlaylist(...); addTracksToPlaylist returns at once,
\* without a call, when there is no track
CreatePlaylist ==
    /\ UNCHANGED handlerVars
    /\ pc = "create"
    /\ \E reply \in PlaylistReplies :
        LET created == CreateSpotifyPlaylist(reply, request.artistName, actualYear)
            call == [op |-> "createPlaylist", userId |-> userId,
                     token |-> request.accessToken,
                     body |-> CreatePlaylistBody(request.artistName, actualYear),
                     reply |-> ReplySummary(reply),
                     id |-> IF reply.kind = "ok" THEN reply.data.id ELSE ""]
        IN  /\ calls' = Append(calls, call)
            /\ IF ~created.ok
               THEN /\ RejectCreatePlaylist(created)
                    /\ UNCHANGED <<playlistId, result>>
               ELSE /\ playlistId' = created.value
                    /\ UNCHANGED <<stageError, error, logs>>
                    /\ IF NoTracks(trackUris)
                       THEN /\ result' = PlaylistCreationResult(created.value,
                                             trackUris, actualYear)
                            /\ pc' = "done"
                       ELSE /\ pc' = "add"
                            /\ UNCHANGED result
    /\ UNCHANGED <<request, apiKey, clock, ticks, targetYear, songs, songIdx,
                   results, trackUris, actualYear, userId, response,
                   sortedSongs>>

\* await axios.post(.../tracks) of addTracksToPlaylist
AddTracks ==
    /\ UNCHANGED handlerVars
    /\ pc = "add"
    /\ \E reply \in AddTracksReplies :
        LET added == AddTracksToPlaylist(reply, playlistId, trackUris)
            call == [op |-> "addTracks", playlistId |-> playlistId,
                     token |-> request.accessToken,
                     body |-> AddTracksBody(trackUris),
                     reply |-> ReplySummary(reply)]
        IN  /\ calls' = Append(calls, call)
            /\ IF added.ok
               THEN /\ result' = PlaylistCreationResult(playlistId, trackUris,
                                                        actualYear)
                    /\ pc' = "done"
                    /\ UNCHANGED <<stageError, error, logs>>
               ELSE /\ RejectCreatePlaylist(added)
                    /\ UNCHANGED result
    /\ UNCHANGED <<request, apiKey, clock, ticks, targetYear, songs, songIdx,
                   results, trackUris, actualYear, userId, playlistId,
                   response, sortedSongs>>

\* the year changes while the invocation is suspended.  The clock is read
\* twice, when getAverageSetlist is entered and when matchAllTracks has
\* returned, and between the two readings every invocation is suspended in
\* at least one search: a change of the year there stands for a change at
\* any await between the readings, and a change after the second reading
\* is not observed
Tick ==
    /\ UNCHANGED handlerVars
    /\ pc = "search"
    /\ ticks < MaxTicks
    /\ clock' = clock + 1
    /\ ticks' = ticks + 1
    /\ UNCHANGED <<request, apiKey, pc, targetYear, songs, songIdx, results,
                   trackUris, actualYear, userId, playlistId, result,
                   stageError, error, calls, logs, response, sortedSongs>>

Next ==
    \/ Start
    \/ FetchSetlist
    \/ SearchTrack
    \/ GetUser
    \/ CreatePlaylist
    \/ AddTracks
    \/ Tick

Spec == Init /\ [][Next]_vars

(***************************************************************************)
(* The two Netlify functions around the pipeline and the token exchange    *)
(***************************************************************************)
NoRequest ==
    [artistId |-> <<>>, artistName |-> <<>>, year |-> None, accessToken |-> <<>>]
BaseEvent ==
    [NoEvent EXCEPT !.artistId = <<"i", "d">>, !.artistName = <<"M", "u">>]
\* events of the create-playlist function: a token in the header, a token
\* and a year in the query string, a blank artist name, and one event for
\* each check the function makes itself
CreatePlaylistEvents ==
    {[BaseEvent EXCEPT !.authorization = <<"b", "e", "a", "r", "e", "r", " ", " ", "t", "k">>],
     [BaseEvent EXCEPT !.access_token = <<"t", "k">>,
                       !.year = <<"2", "0", "2", "3", "x">>,
                       !.authorization = <<"B", "a", "s", "i", "c", " ", "x">>],
     [BaseEvent EXCEPT !.access_token = <<"t", "k">>, !.artistName = <<" ">>],
     [BaseEvent EXCEPT !.access_token = <<"t", "k">>, !.artistId = <<>>],
     [BaseEvent EXCEPT !.access_token = <<"t", "k">>, !.artistName = <<>>],
     [BaseEvent EXCEPT !.access_token = <<"t", "k">>, !.year = <<"x">>],
     [BaseEvent EXCEPT !.authorization = <<"B", "e", "a", "r", "e", "r">>]}
\* events of the callback function: a code, an error of Spotify, both,
\* neither
CallbackEvents ==
    {[NoEvent EXCEPT !.code = <<"c">>],
     [NoEvent EXCEPT !.error = <<"d", "e", "n", "i", "e", "d">>],
     [NoEvent EXCEPT !.code = <<"c">>, !.error = <<"d", "e", "n", "i", "e", "d">>],
     NoEvent}
Envs == {FullEnv, [FullEnv EXCEPT !.SPOTIFY_CLIENT_SECRET = <<" ">>]}
\* what the token endpoint comes back with
TokenReplies ==
    {[kind |-> "ok", data |-> [access_token |-> <<"t", "k">>]],
     [kind |-> "notOk", status |-> 400,
      errorData |-> Some([error |-> "invalid_grant"])],
     [kind |-> "notOk", status |-> 503, errorData |-> None],
     [kind |-> "rejected"],
     [kind |-> "noJson"]}
\* a few of the responses of setlist.fm
SomeSetlistResponses ==
    {<<>>,
     << << <<"A">> >> >>,
     << << <<"A", "B">> >>, << <<"B">> >> >>}
SomeSetlistReplies == {OkReply(r) : r \in SomeSetlistResponses} \cup FailureReplies

InitHttp ==
    /\ pc \in {"createPlaylistFunction", "callbackFunction"}
    /\ event \in IF pc = "callbackFunction" THEN CallbackEvents
                  ELSE CreatePlaylistEvents
    /\ env \in Envs
    /\ apiKey \in ApiKeys
    /\ clock \in ClockStartYears
    /\ request = NoRequest
    /\ Fresh
    /\ response = <<>>
    /\ sortedSongs = <<>>
    /\ httpResponse = NoResponse
    /\ other = NoLocals
    /\ deadline = None

\* the catch block of a function: handleError, then the response
AnswerError(e, context) ==
    LET handled == HandleError(e, context) IN
    /\ logs' = logs \o handled.logged
    /\ httpResponse' = ErrorResponse(handled)
    /\ pc' = "responded"

\* the create-playlist function up to the call of handleCreatePlaylist
CreatePlaylistFunction ==
    /\ pc = "createPlaylistFunction"
    /\ LET built == CreatePlaylistRequestOf(event, env, apiKey) IN
       IF built.ok
       THEN /\ request' = built.value
            /\ pc' = "start"
            /\ UNCHANGED <<logs, httpResponse>>
       ELSE /\ AnswerError(built.error, CreatePlaylistContext(event))
            /\ UNCHANGED request
    /\ UNCHANGED <<apiKey, clock, ticks, targetYear, songs, songIdx, results,
                   trackUris, actualYear, userId, playlistId, result,
                   stageError, error, calls, response, sortedSongs, event,
                   env, other, deadline>>

\* the create-playlist function once handleCreatePlaylist has settled
Respond ==
    /\ pc \in {"done", "failed"}
    /\ IF pc = "done"
       THEN /\ httpResponse' = ResultResponse(result)
            /\ pc' = "responded"
            /\ UNCHANGED logs
       ELSE AnswerError(error, CreatePlaylistContext(event))
    /\ UNCHANGED <<request, apiKey, clock, ticks, targetYear, songs, songIdx,
                   results, trackUris, actualYear, userId, playlistId, result,
                   stageError, error, calls, response, sortedSongs, event,
                   env, other, deadline>>

\* the callback function, with the token exchange it awaits
CallbackFunction ==
    /\ pc = "callbackFunction"
    /\ LET checked == ValidateEnvironment(env, apiKey) IN
       IF ~checked.ok
       THEN AnswerError(checked.error, None) /\ UNCHANGED calls
       ELSE IF event.error # <<>>
       THEN /\ AnswerError(ValidationError(Some([error |-> event.error])), None)
            /\ UNCHANGED calls
       ELSE IF event.code = <<>>
       THEN /\ AnswerError(ValidationError(Some([field |-> "code"])), None)
            /\ UNCHANGED calls
       ELSE \E reply \in TokenReplies :
               LET exchanged == ExchangeCodeForToken(reply)
                   call == [op |-> "exchangeCode", code |-> event.code,
                            reply |-> [kind |-> reply.kind, status |-> None]]
               IN  /\ calls' = Append(calls, call)
                   /\ IF exchanged.ok
                      THEN /\ httpResponse' = RedirectResponse(exchanged.value)
                           /\ pc' = "responded"
                           /\ UNCHANGED logs
                      ELSE AnswerError(exchanged.error, None)
    /\ UNCHANGED <<request, apiKey, clock, ticks, targetYear, songs, songIdx,
                   results, trackUris, actualYear, userId, playlistId, result,
                   stageError, error, response, sortedSongs, event, env, other,
                   deadline>>

FetchSomeSetlist == FetchSetlistFrom(SomeSetlistReplies)

\* the time limit of the function passes while the handler is suspended in
\* await handleCreatePlaylist(request).  The handler sets no timer, axios
\* is called without timeout or signal, and nothing reads the clock but
\* getFullYear: no variable of the program changes
DeadlinePasses ==
    /\ pc \in {"fetch1", "fetch2", "search", "getUser", "create", "add"}
    /\ deadline = None
    /\ deadline' = Some(Len(calls))
    /\ UNCHANGED <<request, apiKey, clock, ticks, pc, targetYear, songs,
                   songIdx, results, trackUris, actualYear, userId, playlistId,
                   result, stageError, error, calls, logs, response,
                   sortedSongs, event, env, httpResponse, other>>

NextHttp ==
    \/ CreatePlaylistFunction
    \/ CallbackFunction
    \/ Start
    \/ FetchSomeSetlist
    \/ SearchTrack
    \/ GetUser
    \/ CreatePlaylist
    \/ AddTracks
    \/ Tick
    \/ DeadlinePasses
    \/ Respond

SpecHttp == InitHttp /\ [][NextHttp]_vars

(***************************************************************************)
(* Two invocations of handleCreatePlaylist on one event loop: one runs     *)
(* while the other is suspended at an await                                *)
(***************************************************************************)
\* what an invocation owns: its request, its locals and the place it is at
Locals ==
    [request |-> request, pc |-> pc, targetYear |-> targetYear,
     songs |-> songs, songIdx |-> songIdx, results |-> results,
     trackUris |-> trackUris, actualYear |-> actualYear, userId |-> userId,
     playlistId |-> playlistId, result |-> result, stageError |-> stageError,
     error |-> error, calls |-> calls]

FreshLocals(req) ==
    [request |-> req, pc |-> "start", targetYear |-> 0, songs |-> <<>>,
     songIdx |-> 0, results |-> <<>>, trackUris |-> <<>>, actualYear |-> 0,
     userId |-> "", playlistId |-> "", result |-> NoResult,
     stageError |-> NoError, error |-> NoError, calls |-> <<>>]

\* the results array is one array of the module, not one of each call
ResumedSharingResults(saved, running) ==
    [saved EXCEPT !.results = running.results]

\* an invocation resumes with the locals it was suspended with
Resumed(saved, running) == saved

PairRequests ==
    {r \in Requests : /\ ValidateRequest(r, <<"k">>) = None
                      /\ r.year = None
                      /\ r.artistId = <<"i", "d">>}
PairSetlistReplies ==
    {OkReply(<<>>), OkReply(<< << <<"A", "B">> >> >>), AxiosError(Some(401))}
\* the calls of the two invocations are answered 200 or 401
PairReply(c) == c.reply.kind = "ok" \/ c.reply.status = Some(401)
PairReplies ==
    /\ \A k \in DOMAIN calls : PairReply(calls[k])
    /\ \A k \in DOMAIN other.calls : PairReply(other.calls[k])

InitPair ==
    /\ request \in PairRequests
    /\ other \in {FreshLocals(r) : r \in PairRequests}
    /\ apiKey = <<"k">>
    /\ clock \in ClockStartYears
    /\ pc = "start"
    /\ Fresh
    /\ response = <<>>
    /\ sortedSongs = <<>>
    /\ event = NoEvent
    /\ env = FullEnv
    /\ httpResponse = NoResponse
    /\ deadline = None

\* the running invocation is suspended at its await and the other resumes
Switch ==
    /\ pc \notin {"start", "done", "failed"}
    /\ other.pc \notin {"done", "failed"}
    /\ LET resumed == Resumed(other, Locals) IN
        /\ request' = resumed.request
        /\ pc' = resumed.pc
        /\ targetYear' = resumed.targetYear
        /\ songs' = resumed.songs
        /\ songIdx' = resumed.songIdx
        /\ results' = resumed.results
        /\ trackUris' = resumed.trackUris
        /\ actualYear' = resumed.actualYear
        /\ userId' = resumed.userId
        /\ playlistId' = resumed.playlistId
        /\ result' = resumed.result
        /\ stageError' = resumed.stageError
        /\ error' = resumed.error
        /\ calls' = resumed.calls
    /\ other' = Locals
    /\ UNCHANGED <<apiKey, clock, ticks, logs, response, sortedSongs, event,
                   env, httpResponse, deadline>>

\* the other invocation runs once the first has settled
Handover ==
    /\ pc \in {"done", "failed"}
    /\ other.pc \notin {"done", "failed"}
    /\ LET resumed == Resumed(other, Locals) IN
        /\ request' = resumed.request
        /\ pc' = resumed.pc
        /\ targetYear' = resumed.targetYear
        /\ songs' = resumed.songs
        /\ songIdx' = resumed.songIdx
        /\ results' = resumed.results
        /\ trackUris' = resumed.trackUris
        /\ actualYear' = resumed.actualYear
        /\ userId' = resumed.userId
        /\ playlistId' = resumed.playlistId
        /\ result' = resumed.result
        /\ stageError' = resumed.stageError
        /\ error' = resumed.error
        /\ calls' = resumed.calls
    /\ other' = Locals
    /\ UNCHANGED <<apiKey, clock, ticks, logs, response, sortedSongs, event,
                   env, httpResponse, deadline>>

\* the steps of the running invocation, answered 200 or 401
PairFetchSetlist == FetchSetlistFrom(PairSetlistReplies) /\ PairReplies'
PairSearchTrack == SearchTrack /\ PairReplies'
PairGetUser == GetUser /\ PairReplies'
PairCreatePlaylist == CreatePlaylist /\ PairReplies'
PairAddTracks == AddTracks /\ PairReplies'

NextPair ==
    \/ Start
    \/ PairFetchSetlist
    \/ PairSearchTrack
    \/ PairGetUser
    \/ PairCreatePlaylist
    \/ PairAddTracks
    \/ Switch
    \/ Handover

SpecPair == InitPair /\ [][NextPair]_vars

(***************************************************************************)
(* One invocation whose calls all come back: every awaited call is         *)
(* answered, with a response or with a failure, and the code between two   *)
(* awaits runs to the next await                                           *)
(***************************************************************************)
\* responses with no, one, two and three distinct songs
LiveSetlistReplies ==
    SomeSetlistReplies \cup {OkReply(<< << <<"A", "a">>, <<"B">> >> >>)}

FetchLiveSetlist == FetchSetlistFrom(LiveSetlistReplies)

NextLive ==
    \/ Start
    \/ FetchLiveSetlist
    \/ SearchTrack
    \/ GetUser
    \/ CreatePlaylist
    \/ AddTracks
    \/ Tick

\* no call stays unanswered for ever; the clock need not move
SpecLive ==
    /\ Init
    /\ [][NextLive]_vars
    /\ WF_vars(Start)
    /\ WF_vars(FetchLiveSetlist)
    /\ WF_vars(SearchTrack)
    /\ WF_vars(GetUser)
    /\ WF_vars(CreatePlaylist)
    /\ WF_vars(AddTracks)

(***************************************************************************)
(* matchAllTracks run twice on one list of songs: two invocations that got *)
(* the same songs from getAverageSetlist, each with its own search replies *)
(***************************************************************************)
\* the ranked lists the two runs are entered with
MatchSongLists ==
    {ParseSetlists(<< << <<"A", "B">> >> >>),
     ParseSetlists(<< << <<"A", "a", "B">> >> >>)}

\* an invocation about to issue its first search
AtFirstSearch(req, year, fetchedSongs) ==
    [FreshLocals(req) EXCEPT !.pc = "search", !.targetYear = year,
                             !.songs = fetchedSongs, !.songIdx = 1]

InitMatch ==
    /\ request \in PairRequests
    /\ apiKey = <<"k">>
    /\ clock \in ClockStartYears
    /\ \E fetchedSongs \in MatchSongLists :
          /\ songs = fetchedSongs
          /\ other = AtFirstSearch(request, clock, fetchedSongs)
    /\ pc = "search"
    /\ targetYear = clock
    /\ songIdx = 1
    /\ ticks = 0
    /\ results = <<>>
    /\ trackUris = <<>>
    /\ actualYear = 0
    /\ userId = ""
    /\ playlistId = ""
    /\ result = NoResult
    /\ stageError = NoError
    /\ error = NoError
    /\ calls = <<>>
    /\ logs = <<>>
    /\ response = <<>>
    /\ sortedSongs = <<>>
    /\ event = NoEvent
    /\ env = FullEnv
    /\ httpResponse = NoResponse
    /\ deadline = None

NextMatch ==
    \/ SearchTrack
    \/ Switch
    \/ Handover

SpecMatch == InitMatch /\ [][NextMatch]_vars

(***************************************************************************)
(* fetchSetlistForYear on its own: every response of the bounded domain is *)
(* counted and ranked                                                      *)
(***************************************************************************)
InitAgg ==
    /\ NoHandler
    /\ request \in {r \in Requests : ValidateRequest(r, <<"k">>) = None
                                        /\ r.year = None}
    /\ apiKey = <<"k">>
    /\ clock \in ClockStartYears
    /\ pc = "count"
    /\ Fresh
    /\ response \in SetlistResponses
    /\ sortedSongs = <<>>

\* lines 125-152 of fetchSetlistForYear
CountAndRank ==
    /\ UNCHANGED handlerVars
    /\ pc = "count"
    /\ sortedSongs' = ParseSetlists(response)
    /\ pc' = "ranked"
    /\ UNCHANGED <<request, apiKey, clock, ticks, targetYear, songs, songIdx,
                   results, trackUris, actualYear, userId, playlistId, result,
                   stageError, error, calls, logs, response>>

NextAgg == CountAndRank

SpecAgg == InitAgg /\ [][NextAgg]_vars
(***************************************************************************)
(* Properties                                                              *)
(***************************************************************************)
IsFetchCall(c) == c.op = "fetchSetlist"
IsSearchCall(c) == c.op = "search"
IsBuilderCall(c) == c.op \in {"getUser", "createPlaylist", "addTracks"}
FetchCalls == SelectSeq(calls, IsFetchCall)
SearchCalls == SelectSeq(calls, IsSearchCall)
BuilderCalls == SelectSeq(calls, IsBuilderCall)

\* matchAllTracks has returned its results to handleCreatePlaylist
MatchReturned ==
    \/ pc \in {"getUser", "create", "add", "done"}
    \/ pc = "failed" /\ BuilderCalls # <<>>

\* the places <<setlist, set, song>> of the songs of a response
SongPlaces(setlists) ==
    UNION {UNION {{<<i, j, k>> : k \in DOMAIN setlists[i][j]}
                      : j \in DOMAIN setlists[i]}
               : i \in DOMAIN setlists}
NameAt(setlists, p) == setlists[p[1]][p[2]][p[3]]
PlacesOf(setlists, name) ==
    {p \in SongPlaces(setlists) : NameAt(setlists, p) = name}
Occurrences(setlists, name) == Cardinality(PlacesOf(setlists, name))
ComesBefore(p, q) ==
    \/ p[1] < q[1]
    \/ p[1] = q[1] /\ p[2] < q[2]
    \/ p[1] = q[1] /\ p[2] = q[2] /\ p[3] < q[3]
\* name a is seen in the response before name b is
SeenBefore(setlists, a, b) ==
    \E p \in PlacesOf(setlists, a) :
        \A q \in PlacesOf(setlists, b) : ComesBefore(p, q)
NamesIn(setlists) == {NameAt(setlists, p) : p \in SongPlaces(setlists)}

FirstFetchEmpty ==
    /\ FetchCalls # <<>>
    /\ FetchCalls[1].reply.kind = "ok"
    /\ FetchCalls[1].songs = <<>>

\* C2: when the fetch of the target year has succeeded without songs,
\* getAverageSetlist has fetched exactly the year before the target year by
\* the time it returns or throws, and the songs it returns are those of
\* that second fetch.
C2_FallbackFetched ==
    (FirstFetchEmpty /\ pc # "fetch2") =>
        /\ Len(FetchCalls) = 2
        /\ FetchCalls[1].year = targetYear
        /\ FetchCalls[2].year = targetYear - 1
        /\ targetYear = OrElse(request.year, targetYear)
        /\ pc # "failed" => songs # <<>>
        /\ songs # <<>> => songs = FetchCalls[2].songs

C2_Witness ==
    /\ FirstFetchEmpty
    /\ pc = "search"
    /\ Len(songs) >= 2

\* C3: one call of getAverageSetlist issues at most two fetches, the first
\* for the target year and the second for the year before it; no other
\* year is fetched.
C3_OneLevelFallback ==
    /\ Len(FetchCalls) <= 2
    /\ \A k \in DOMAIN FetchCalls :
          FetchCalls[k].year = IF k = 1 THEN targetYear ELSE targetYear - 1
    /\ \A k \in DOMAIN FetchCalls : FetchCalls[k].year # targetYear - 2

\* the fallback year had no usable answer and the invocation is over
C3_Witness ==
    /\ pc = "failed"
    /\ Len(FetchCalls) = 2
    /\ FetchCalls[2].reply.kind = "otherError"

BothFetchesEmpty ==
    /\ Len(FetchCalls) = 2
    /\ FetchCalls[1].reply.kind = "ok" /\ FetchCalls[1].songs = <<>>
    /\ FetchCalls[2].reply.kind = "ok" /\ FetchCalls[2].songs = <<>>

\* C4: when both fetches have succeeded without songs, the invocation has
\* failed with a DataNotFoundError carrying the artist id, the target year
\* and the retry year, and the two fetches are the only external calls.
C4_NoDataFound ==
    BothFetchesEmpty =>
        /\ pc = "failed"
        /\ error = DataNotFoundError(Some(
                       [artistId |-> request.artistId,
                        targetYear |-> targetYear,
                        retryYear |-> targetYear - 1]))
        /\ Len(calls) = 2

C4_Witness ==
    /\ BothFetchesEmpty
    /\ pc = "failed"
    /\ request.year = None
    /\ error.details[1].retryYear = 2023

\* C5: a setlist fetch that fails is the last external call of the
\* invocation, which has failed with an ExternalAPIError naming setlist.fm;
\* when the failure is a transport or service error (axios), the error
\* carries the HTTP status and the year that was being fetched.
C5_FetchFailureEndsRun ==
    \A k \in DOMAIN calls :
        (calls[k].op = "fetchSetlist" /\ calls[k].reply.kind # "ok") =>
            /\ k = Len(calls)
            /\ pc = "failed"
            /\ error.name = "ExternalAPIError"
            /\ error.serviceName = "setlist.fm"
            /\ calls[k].reply.kind = "axiosError" =>
                  error = ExternalAPIError("setlist.fm",
                              Some([statusCode |-> calls[k].reply.status,
                                    year |-> calls[k].year]))

\* the fetch of the target year fails: no fallback
C5_Witness ==
    /\ Len(calls) = 1
    /\ calls[1].op = "fetchSetlist"
    /\ calls[1].reply.kind = "axiosError"
    /\ calls[1].reply.status = Some(503)
    /\ pc = "failed"

\* C6: the results matchAllTracks returns are as many as the songs, the
\* k-th result carries the name of the k-th song, and a result that is not
\* found has no track URI.
C6_ResultsMapSongs ==
    /\ \A k \in DOMAIN results :
          ~results[k].found => results[k].trackUri = NullUri
    /\ MatchReturned =>
          /\ Len(results) = Len(songs)
          /\ \A k \in DOMAIN results : results[k].songName = songs[k].name

C6_Witness ==
    /\ MatchReturned
    /\ Len(songs) = 3
    /\ ~results[1].found
    /\ results[2].found
    /\ ~results[3].found

\* the reply of a search that finds nothing or fails, a 401 excepted
Unresolved(c) ==
    \/ c.reply.kind = "ok" /\ c.items = 0
    \/ c.reply.kind = "otherError"
    \/ c.reply.kind = "axiosError" /\ c.reply.status # Some(401)

C8_AuthFailureAborts ==
    \A k \in DOMAIN calls :
        (/\ calls[k].op = "search"
         /\ calls[k].reply.kind = "axiosError"
         /\ calls[k].reply.status = Some(401)) =>
            /\ pc = "failed"
            /\ error = AuthenticationError(Some([statusCode |-> Some(401)]))
            /\ k = Len(calls)
            /\ BuilderCalls = <<>>

C8_Witness ==
    /\ pc = "failed"
    /\ error.name = "AuthenticationError"
    /\ Len(SearchCalls) = 3
    /\ Len(results) = 2
    /\ results[1].found
    /\ results[2].found

\* C9: the tracksAdded of a returned result is the number of results with
\* found = TRUE.
C9_TracksAddedCountsFound ==
    pc = "done" =>
        result.tracksAdded =
            Cardinality({k \in DOMAIN results : results[k].found})

C9_Witness ==
    /\ pc = "done"
    /\ Len(results) = 3
    /\ result.tracksAdded = 2

IsDigit(c) == c \in {"0", "1", "2", "3", "4", "5", "6", "7", "8", "9"}
DigitValue(c) == CHOOSE d \in 0..9 : DigitChar(d) = c
RECURSIVE DecimalValue(_)
DecimalValue(text) ==
    IF text = <<>> THEN 0
    ELSE 10 * DecimalValue(SubSeq(text, 1, Len(text) - 1))
            + DigitValue(text[Len(text)])

NameTemplate ==
    <<" ", EmDash, " ", "A", "v", "e", "r", "a", "g", "e", " ",
      "S", "e", "t", "l", "i", "s", "t", " ">>

\* C10: the name of every create-playlist call is the artist name of the
\* request, " <U+2014> Average Setlist " and the decimal digits of the year of
\* the pipeline (the year of the request, or the year of the clock when the
\* request has none), and its public flag is FALSE.
C10_PlaylistNameAndPrivacy ==
    \A k \in DOMAIN calls :
        calls[k].op = "createPlaylist" =>
            LET name == calls[k].body.name
                head == request.artistName \o NameTemplate
                digits == SubSeq(name, Len(head) + 1, Len(name))
            IN  /\ Len(name) > Len(head)
                /\ SubSeq(name, 1, Len(head)) = head
                /\ \A i \in DOMAIN digits : IsDigit(digits[i])
                /\ Len(digits) > 1 => digits[1] # "0"
                /\ DecimalValue(digits) = actualYear
                /\ actualYear = OrElse(request.year, actualYear)
                /\ actualYear \in (clock - ticks)..clock \/ IsSome(request.year)
                /\ calls[k].body.public = FALSE

C10_Witness ==
    /\ pc = "done"
    /\ request.artistName = <<" ", "X">>
    /\ request.year = None
    /\ ticks = 1

IsAddTracksCall(c) == c.op = "addTracks"
IsCreateCall(c) == c.op = "createPlaylist"
AddTracksCalls == SelectSeq(calls, IsAddTracksCall)
CreateCalls == SelectSeq(calls, IsCreateCall)
\* createSpotifyPlaylist has returned the id of the new playlist
PlaylistCreated == CreateCalls # <<>> /\ CreateCalls[1].reply.kind = "ok"
AllRepliesOk == \A k \in DOMAIN calls : calls[k].reply.kind = "ok"

\* C11: once the playlist is created, a non-empty track list is sent in one
\* add-tracks call whose uris are the list handed to createPlaylist, in the
\* same order, and a result is returned only after that call; with an empty
\* track list no add-tracks call is issued and the run ends with a result and
\* no error.
C11_TracksAddedInOneCall ==
    /\ Len(AddTracksCalls) <= 1
    /\ \A k \in DOMAIN AddTracksCalls :
            /\ AddTracksCalls[k].body.uris = trackUris
            /\ trackUris # <<>>
    /\ (PlaylistCreated /\ trackUris # <<>>) =>
            \/ pc = "add" /\ AddTracksCalls = <<>>
            \/ pc \in {"done", "failed"} /\ Len(AddTracksCalls) = 1
    /\ (PlaylistCreated /\ trackUris = <<>>) =>
            /\ pc = "done"
            /\ error = NoError
            /\ AddTracksCalls = <<>>

C11_Witness ==
    /\ pc = "done"
    /\ Len(trackUris) = 2
    /\ trackUris[1] # trackUris[2]
    /\ Len(AddTracksCalls) = 1

C13_NoTrackFoundIsNotFound ==
    (pc \in {"done", "failed"} /\ MatchReturned /\ AllRepliesOk
        /\ \A k \in DOMAIN results : ~results[k].found) =>
            /\ pc = "failed"
            /\ error.name = "DataNotFoundError"

LastCall == calls[Len(calls)]
\* createPlaylist was entered and threw
BuilderFailed == pc = "failed" /\ BuilderCalls # <<>>

\* C14 as stated: a run that fails in createPlaylist ends with an
\* AuthenticationError when the failing call was answered 401 and with an
\* ExternalAPIError naming Spotify for every other failure, and without a
\* result.
C14_BuilderFailureTyped ==
    BuilderFailed =>
        /\ result = NoResult
        /\ IF LastCall.reply.status = Some(401)
           THEN error.name = "AuthenticationError"
           ELSE error.name = "ExternalAPIError" /\ error.serviceName = "Spotify"

\* C14 amended: a run that fails in createPlaylist fails at its last call,
\* which is one of the three steps, and ends without a result; with an
\* AuthenticationError when that call was rejected by axios with status 401,
\* with an ExternalAPIError naming Spotify when it was rejected by axios in
\* any other way, and with a plain Error when the failure is not an axios
\* error.
C14_BuilderFailureKinds ==
    BuilderFailed =>
        /\ result = NoResult
        /\ IsBuilderCall(LastCall)
        /\ LastCall.reply.kind # "ok"
        /\ \A k \in 1..(Len(BuilderCalls) - 1) :
                BuilderCalls[k].reply.kind = "ok"
        /\ CASE LastCall.reply.kind = "axiosError"
                    /\ LastCall.reply.status = Some(401) ->
                    /\ error.name = "AuthenticationError"
                    /\ error.details = Some([statusCode |-> Some(401)])
             [] LastCall.reply.kind = "axiosError"
                    /\ LastCall.reply.status # Some(401) ->
                    /\ error.name = "ExternalAPIError"
                    /\ error.serviceName = "Spotify"
                    /\ error.details =
                           Some([statusCode |-> LastCall.reply.status])
             [] OTHER ->
                    /\ error.name = "Error"
                    /\ error.details = None

C14_Witness ==
    /\ BuilderFailed
    /\ LastCall.op = "addTracks"
    /\ LastCall.reply.kind = "otherError"
    /\ error.name = "Error"

\* a text is blank when it has no character that is not white space
OnlyWhitespace(text) == \A i \in DOMAIN text : text[i] \in {" ", "\t", "\n"}
RequestFields == <<"accessToken", "artistId", "artistName">>
FieldText(f) ==
    CASE f = "accessToken" -> request.accessToken
      [] f = "artistId" -> request.artistId
      [] f = "artistName" -> request.artistName
BlankFields == {i \in DOMAIN RequestFields : OnlyWhitespace(FieldText(RequestFields[i]))}
NamesRequestField(e) ==
    /\ e.name = "ValidationError"
    /\ \E i \in DOMAIN RequestFields :
            e.details = Some([field |-> RequestFields[i]])

\* C15: once handleCreatePlaylist has run its checks, a request with a
\* blank credential, artist id or artist name has been rejected, before any
\* call, with a ValidationError whose details name the first blank field,
\* and a request whose three fields are not blank has not been rejected with
\* a ValidationError naming one of them.
C15_BlankFieldRejected ==
    pc # "start" =>
        IF BlankFields # {}
        THEN LET first == CHOOSE i \in BlankFields :
                              \A j \in BlankFields : i <= j
             IN  /\ pc = "failed"
                 /\ calls = <<>>
                 /\ error.name = "ValidationError"
                 /\ error.details = Some([field |-> RequestFields[first]])
        ELSE ~NamesRequestField(error)

C15_Witness ==
    /\ pc = "failed"
    /\ request.accessToken = <<"t", "k">>
    /\ request.artistId = <<"i", "d">>
    /\ request.artistName = <<" ">>
    /\ error.details = Some([field |-> "artistName"])

\* the year written in the name of a create-playlist call
YearInName(name) ==
    DecimalValue(SubSeq(name, Len(request.artistName \o NameTemplate) + 1,
                        Len(name)))

\* C16: in a run for a request without a year, the year of the first setlist
\* fetch, the year in the name of the playlist and the year of the returned
\* result are one and the same value.
C16_YearResolvedOnce ==
    (request.year = None /\ pc = "done") =>
        /\ YearInName(CreateCalls[1].body.name) = FetchCalls[1].year
        /\ result.year = FetchCalls[1].year

\* C17: the year of a returned result, and the year in the name of its
\* playlist, is the year of the fetch that returned the songs (stated for
\* the runs during which the calendar year did not change).
C17_ResultYearIsSetlistYear ==
    (pc = "done" /\ ticks = 0) =>
        LET from == FetchCalls[Len(FetchCalls)]
        IN  /\ from.songs = songs
            /\ result.year = from.year
            /\ YearInName(CreateCalls[1].body.name) = from.year

\* C18: the error a run fails with is the error that was thrown inside
\* handleCreatePlaylist, whichever stage threw it.
C18_StageErrorUnchanged ==
    pc = "failed" =>
        /\ stageError # NoError
        /\ error = stageError

C18_Witness ==
    /\ pc = "failed"
    /\ calls # <<>>
    /\ LastCall.op = "createPlaylist"
    /\ stageError.name = "ExternalAPIError"
    /\ error.serviceName = "Spotify"

\* C19: an add-tracks call that fails is issued after the playlist was
\* created and is the last call of the run, which has failed with an error
\* and without a result.
C19_AddTracksFailureNotCompensated ==
    \A k \in DOMAIN calls :
        (calls[k].op = "addTracks" /\ calls[k].reply.kind # "ok") =>
            /\ k = Len(calls)
            /\ PlaylistCreated
            /\ pc = "failed"
            /\ error # NoError
            /\ result = NoResult

C19_Witness ==
    /\ pc = "failed"
    /\ calls # <<>>
    /\ LastCall.op = "addTracks"
    /\ LastCall.reply.status = Some(503)
    /\ PlaylistCreated
    /\ playlistId \in PlaylistIds

RECURSIVE FirstAppearances(_)
\* the names of a sequence in the order in which they first appear
FirstAppearances(names) ==
    IF names = <<>> THEN <<>>
    ELSE LET before == FirstAppearances(SubSeq(names, 1, Len(names) - 1))
             last == names[Len(names)]
         IN  IF \E i \in DOMAIN before : before[i] = last
             THEN before
             ELSE Append(before, last)

\* C20: the names of the extracted songs are, in this order, the names of
\* the response in the order in which they appear in it.
C20_ResponseOrderPreserved ==
    pc = "ranked" =>
        [i \in DOMAIN sortedSongs |-> sortedSongs[i].name]
            = FirstAppearances(SongsVisited(response))

IsAuthFailure(c) == c.reply.kind = "axiosError" /\ c.reply.status = Some(401)

C26_CountIsOccurrences ==
    pc = "ranked" =>
        LET counted == CountFrequencies(<<>>, SongsVisited(response))
        IN  /\ \A i \in DOMAIN counted :
                    counted[i][2] = Occurrences(response, counted[i][1])
            /\ {counted[i][1] : i \in DOMAIN counted} = NamesIn(response)
            /\ Len(counted) = Cardinality(NamesIn(response))
            /\ {sortedSongs[i].name : i \in DOMAIN sortedSongs}
                    = NamesIn(response)
            /\ Len(sortedSongs) = Cardinality(NamesIn(response))

\* a set with two "A" and one "a", and a set without songs
C26_Witness ==
    /\ pc = "ranked"
    /\ response = << << <<"A", "a", "A">>, <<>> >> >>
    /\ Len(sortedSongs) = 2
    /\ sortedSongs[1].name = "A"

CallsBefore(i, Test(_)) == Cardinality({j \in 1..(i - 1) : Test(calls[j])})

\* C28: a search is issued only after a fetch has returned the songs of the
\* run, which are not empty, and no fetch follows it; an identity,
\* create-playlist or add-tracks call is issued only after as many searches
\* as there are songs, with a result for every song, and neither a fetch nor
\* a search follows it.
C28_StagesInOrder ==
    \A i \in DOMAIN calls :
        /\ IsSearchCall(calls[i]) =>
                /\ songs # <<>>
                /\ \E j \in 1..(i - 1) :
                        /\ IsFetchCall(calls[j])
                        /\ calls[j].reply.kind = "ok"
                        /\ calls[j].songs = songs
                /\ \A j \in (i + 1)..Len(calls) : ~IsFetchCall(calls[j])
        /\ IsBuilderCall(calls[i]) =>
                /\ songs # <<>>
                /\ CallsBefore(i, IsSearchCall) = Len(songs)
                /\ Len(results) = Len(songs)
                /\ \A j \in (i + 1)..Len(calls) : IsBuilderCall(calls[j])

C28_Witness ==
    /\ pc = "done"
    /\ Len(FetchCalls) = 2
    /\ Len(SearchCalls) = 2
    /\ Len(BuilderCalls) = 3

BuilderOrder == <<"getUser", "createPlaylist", "addTracks">>

\* C29: the calls of createPlaylist are, in this order, the identity call,
\* the create-playlist call and the add-tracks call, and each call but the
\* last one issued has succeeded.
C29_BuilderCallsInOrder ==
    /\ Len(BuilderCalls) <= Len(BuilderOrder)
    /\ \A k \in DOMAIN BuilderCalls :
            /\ BuilderCalls[k].op = BuilderOrder[k]
            /\ k < Len(BuilderCalls) => BuilderCalls[k].reply.kind = "ok"

C29_Witness ==
    /\ pc = "failed"
    /\ Len(BuilderCalls) = 1
    /\ IsAuthFailure(BuilderCalls[1])
    /\ error.name = "AuthenticationError"

\* C30: in a run the identity call, the create-playlist call and the
\* add-tracks call are each issued at most once, no two searches are for
\* the same song, and no two fetches are for the same year.
C30_NoCallRetried ==
    /\ \A o \in {"getUser", "createPlaylist", "addTracks"} :
            Cardinality({k \in DOMAIN calls : calls[k].op = o}) <= 1
    /\ \A j, k \in DOMAIN SearchCalls :
            j # k => SearchCalls[j].song # SearchCalls[k].song
    /\ Len(SearchCalls) <= Len(songs)
    /\ \A j, k \in DOMAIN FetchCalls :
            j # k => FetchCalls[j].year # FetchCalls[k].year

C30_Witness ==
    /\ pc = "failed"
    /\ calls # <<>>
    /\ LastCall.op = "createPlaylist"
    /\ LastCall.reply.status = Some(503)
    /\ Len(SearchCalls) = 3
    /\ SearchCalls[2].reply.status = Some(503)

\* the kind of the error a function answered: handleError logs it last
AnsweredKind == logs[Len(logs)].errorType
IsErrorResponse == pc = "responded" /\ httpResponse.statusCode \notin {200, 302}
StatusOfKind(kind) ==
    CASE kind = "AuthenticationError" -> 401
      [] kind = "ExternalAPIError" -> 502
      [] kind = "DataNotFoundError" -> 404
      [] kind = "ValidationError" -> 400
      [] OTHER -> 500

\* C22: an error response carries the status of the kind of the error it
\* answers, 401, 502, 404 or 400 for the four typed kinds and 500 for any
\* other, and the error handleCreatePlaylist rejected with is the one
\* answered.
C22_StatusByKind ==
    IsErrorResponse =>
        /\ logs # <<>>
        /\ httpResponse.statusCode = StatusOfKind(AnsweredKind)
        /\ error # NoError =>
                /\ AnsweredKind = error.name
                /\ httpResponse.statusCode = StatusOfKind(error.name)

C22_Witness ==
    /\ pc = "responded"
    /\ error.name = "DataNotFoundError"
    /\ httpResponse.statusCode = 404

\* C23: when a function has answered, an error log entry has been written
\* if any of the external calls of the request failed.
C23_FailedCallLogged ==
    (pc = "responded" /\ \E k \in DOMAIN calls : calls[k].reply.kind # "ok")
        => logs # <<>>

CodeOfKind(kind) ==
    CASE kind = "AuthenticationError" -> <<"A", "U", "T", "H", "E", "N", "T", "I", "C", "A", "T", "I", "O", "N">>
      [] kind = "ExternalAPIError" -> <<"E", "X", "T", "E", "R", "N", "A", "L", "A", "P", "I">>
      [] kind = "DataNotFoundError" -> <<"D", "A", "T", "A", "N", "O", "T", "F", "O", "U", "N", "D">>
      [] kind = "ValidationError" -> <<"V", "A", "L", "I", "D", "A", "T", "I", "O", "N">>
      [] kind = "Error" -> <<>>
ExchangeFailed ==
    /\ pc = "responded"
    /\ calls # <<>>
    /\ LastCall.op = "exchangeCode"
    /\ LastCall.reply.kind # "ok"
\* every state is one of a function still running or one with its response
Answered ==
    /\ pc \in {"createPlaylistFunction", "callbackFunction", "start", "fetch1",
               "fetch2", "search", "getUser", "create", "add", "done",
               "failed", "responded"}
    /\ (pc = "responded") <=> (httpResponse # NoResponse)
    /\ pc = "responded" =>
            CASE httpResponse.statusCode = 200 ->
                    /\ error = NoError
                    /\ result # NoResult
                    /\ httpResponse.body = result
              [] httpResponse.statusCode = 302 ->
                    /\ LastCall.op = "exchangeCode"
                    /\ LastCall.reply.kind = "ok"
              [] OTHER ->
                    /\ httpResponse.contentType = "application/json"
                    /\ httpResponse.statusCode = StatusOfKind(AnsweredKind)
                    /\ httpResponse.body.error.code = CodeOfKind(AnsweredKind)

OwnSearchCalls(l) == SelectSeq(l.calls, IsSearchCall)
OwnFetchCalls(l) == SelectSeq(l.calls, IsFetchCall)
\* what an invocation holds is what its own request and the replies to its
\* own calls make it
OwnOutcome(l) ==
    /\ \A k \in DOMAIN l.calls :
            LET c == l.calls[k] IN
            CASE c.op = "fetchSetlist" -> c.artistId = l.request.artistId
              [] c.op = "search" -> /\ c.artist = l.request.artistName
                                    /\ c.token = l.request.accessToken
              [] c.op = "createPlaylist" ->
                    /\ c.token = l.request.accessToken
                    /\ SubSeq(c.body.name, 1, Len(l.request.artistName))
                            = l.request.artistName
              [] c.op = "addTracks" -> /\ c.token = l.request.accessToken
                                       /\ c.body.uris = l.trackUris
              [] OTHER -> c.token = l.request.accessToken
    /\ l.songs # <<>> =>
            /\ OwnFetchCalls(l) # <<>>
            /\ l.songs = OwnFetchCalls(l)[Len(OwnFetchCalls(l))].songs
    /\ Len(l.results) <= Len(OwnSearchCalls(l))
    /\ \A k \in DOMAIN l.results :
            /\ l.results[k].songName = OwnSearchCalls(l)[k].song
            /\ l.results[k].found = (OwnSearchCalls(l)[k].items > 0)
    /\ l.pc \in {"getUser", "create", "add", "done"} =>
            /\ Len(l.results) = Len(l.songs)
            /\ Len(l.trackUris) =
                    Cardinality({k \in DOMAIN OwnSearchCalls(l) :
                                    OwnSearchCalls(l)[k].items > 0})
    /\ l.pc = "done" =>
            /\ l.result.tracksAdded = Len(l.trackUris)
            /\ l.result.playlistId = l.playlistId
    /\ l.pc = "failed" =>
            /\ l.calls # <<>>
            /\ l.calls[Len(l.calls)].reply.kind # "ok"
                    \/ OwnFetchCalls(l)[Len(OwnFetchCalls(l))].songs = <<>>

\* C25: of two invocations interleaved at their awaits, each holds what its
\* own request and the replies to its own calls make it, and two
\* invocations that have been entered with the same request and have had
\* the same calls and replies are at the same place with the same songs, results, track list and error.
C25_InvocationsIndependent ==
    /\ OwnOutcome(Locals)
    /\ OwnOutcome(other)
    /\ (/\ request = other.request
        /\ calls = other.calls
        /\ pc # "start"
        /\ other.pc # "start") =>
            /\ pc = other.pc
            /\ targetYear = other.targetYear
            /\ songs = other.songs
            /\ Len(results) = Len(other.results)
            /\ Len(trackUris) = Len(other.trackUris)
            /\ result.tracksAdded = other.result.tracksAdded
            /\ error = other.error

\* both are under way on different requests, one about to add its tracks
\* while the other is between its two searches
C25_Witness ==
    /\ pc = "add"
    /\ other.pc = "search"
    /\ request # other.request
    /\ Len(trackUris) = 1
    /\ Len(other.results) = 1
    /\ other.results[1].found

\* the track URIs of the results with found = TRUE, first result first
RECURSIVE FoundUris(_)
FoundUris(rs) ==
    IF rs = <<>> THEN <<>>
    ELSE IF Head(rs).found
         THEN <<Head(rs).trackUri>> \o FoundUris(Tail(rs))
         ELSE FoundUris(Tail(rs))

\* C31: the track list handleCreatePlaylist hands to createPlaylist, and
\* the one createPlaylist posts, is the sequence of the track URIs of the
\* results with found = TRUE in the order of the results: every found
\* track once, at its place, and nothing for a song that was not found.
C31_TrackListIsFoundSubsequence ==
    /\ MatchReturned => trackUris = FoundUris(results)
    /\ \A k \in DOMAIN calls :
          calls[k].op = "addTracks" => calls[k].body.uris = FoundUris(results)

C31_Witness ==
    /\ calls # <<>>
    /\ LastCall.op = "addTracks"
    /\ Len(results) = 3
    /\ results[1].found
    /\ ~results[2].found
    /\ results[3].found
    /\ results[1].trackUri # results[3].trackUri

\* what came back for a search: how the call ended and the items it carried
SearchResponse(c) == [reply |-> c.reply, data |-> c.data]

\* C32: of two runs of matchAllTracks over the same songs, the results of
\* song i are the same whenever the two searches of song i got the same
\* response, whatever the searches of the other songs got; and a search
\* that was not answered 401 has left a result.
C32_ResultDependsOnOwnSearch ==
    LET mine == OwnSearchCalls(Locals)
        theirs == OwnSearchCalls(other)
    IN  /\ \A i \in DOMAIN mine :
              ~IsAuthFailure(mine[i]) => i \in DOMAIN results
        /\ \A i \in DOMAIN theirs :
              ~IsAuthFailure(theirs[i]) => i \in DOMAIN other.results
        /\ \A i \in DOMAIN results \cap DOMAIN other.results :
              (/\ songs[i] = other.songs[i]
               /\ SearchResponse(mine[i]) = SearchResponse(theirs[i])) =>
                    results[i] = other.results[i]

\* both runs are through their three songs; the searches of the second
\* song ended differently, those of the first and of the third alike
C32_Witness ==
    /\ pc = "getUser"
    /\ other.pc = "getUser"
    /\ Len(results) = 3
    /\ Len(other.results) = 3
    /\ calls[2].reply.kind = "axiosError"
    /\ other.calls[2].reply.kind = "ok"
    /\ results[2] # other.results[2]
    /\ SearchResponse(calls[1]) = SearchResponse(other.calls[1])
    /\ SearchResponse(calls[3]) = SearchResponse(other.calls[3])
    /\ results[1].found
    /\ results[3].found
    /\ results[3] = other.results[3]

\* C33: once the time limit of the function has passed while the pipeline
\* was running, no call is issued beyond the one that was due, the pipeline
\* does not return a result, and the request is answered as a failure of
\* an external service (502, EXTERNAL_API).
C33_DeadlineAbortsPipeline ==
    IsSome(deadline) =>
        /\ Len(calls) <= deadline[1] + 1
        /\ pc # "done"
        /\ pc = "responded" =>
              /\ httpResponse.statusCode = 502
              /\ httpResponse.body.error.code = CodeOfKind("ExternalAPIError")

\* the callback function has answered
CallbackAnswered == pc = "responded" /\ event \in CallbackEvents
ExchangeCalls == SelectSeq(calls, LAMBDA c : c.op = "exchangeCode")
\* the request carries an error parameter of Spotify, or no code
NoCodeToExchange == event.error # <<>> \/ event.code = <<>>
AnsweredValidationError ==
    /\ httpResponse.statusCode = 400
    /\ httpResponse.body.error.code = CodeOfKind("ValidationError")

\* C34 as stated: a callback request with an error parameter or without a
\* code is answered 400 as a ValidationError without a call of the token
\* endpoint, and a 302 is answered only after an exchange that succeeded.
C34_NoCodeAnswered400 ==
    CallbackAnswered =>
        /\ NoCodeToExchange => AnsweredValidationError /\ ExchangeCalls = <<>>
        /\ httpResponse.statusCode = 302 =>
              /\ Len(ExchangeCalls) = 1
              /\ ExchangeCalls[1].reply.kind = "ok"

\* C34: the token endpoint is called, once, only when the environment is
\* complete and the request carries a code and no error parameter; a
\* request with an error parameter or without a code is answered 400 as a
\* ValidationError when the environment is complete and 500 when it is
\* not; a 302 is answered only after an exchange that succeeded, and its
\* Location carries the token of that exchange.
C34_ExchangeOnlyWithCode ==
    CallbackAnswered =>
        /\ ExchangeCalls # <<>> =>
              /\ Len(ExchangeCalls) = 1
              /\ ExchangeCalls[1].code = event.code
              /\ ~NoCodeToExchange
              /\ ValidateEnvironment(env, apiKey).ok
        /\ NoCodeToExchange =>
              /\ ExchangeCalls = <<>>
              /\ IF ValidateEnvironment(env, apiKey).ok
                 THEN AnsweredValidationError
                 ELSE httpResponse.statusCode = 500
        /\ httpResponse.statusCode = 302 =>
              /\ Len(ExchangeCalls) = 1
              /\ ExchangeCalls[1].reply.kind = "ok"
              /\ httpResponse.location =
                    <<"/", "?", "a", "c", "c", "e", "s", "s", "_", "t", "o", "k", "e", "n", "=", "t", "k">>

\* Spotify sent an error together with a code: answered 400, no exchange
C34_Witness ==
    /\ CallbackAnswered
    /\ event.error # <<>>
    /\ event.code # <<>>
    /\ AnsweredValidationError
    /\ calls = <<>>

FirstFetchHasSongs ==
    /\ FetchCalls # <<>>
    /\ FetchCalls[1].reply.kind = "ok"
    /\ FetchCalls[1].songs # <<>>

\* C35: when the fetch of the target year has succeeded with at least one
\* song, it is the only fetch of the invocation, whatever happens later:
\* the year before is never fetched, and the songs getAverageSetlist
\* returns are the songs of that fetch.
C35_NoFallbackWhenSongs ==
    FirstFetchHasSongs =>
        /\ Len(FetchCalls) = 1
        /\ pc # "fetch2"
        /\ FetchCalls[1].year = targetYear
        /\ songs = FetchCalls[1].songs

C35_Witness ==
    /\ FirstFetchHasSongs
    /\ pc = "done"
    /\ Len(songs) = 3
    /\ Len(calls) = 7

\* the request, or the environment, is one handleCreatePlaylist rejects
MustBeRejected == BlankFields # {} \/ apiKey = <<>>

\* C36: an invocation whose request has a blank credential, artist id or
\* artist name, or that finds no setlist.fm API key, never issues a call of
\* any kind, and an invocation that was rejected with a ValidationError has
\* issued none and has fetched, matched and created nothing.
C36_NoCallWhenRejected ==
    /\ MustBeRejected =>
          /\ calls = <<>>
          /\ pc \in {"start", "failed"}
    /\ (pc = "failed" /\ error.name = "ValidationError") =>
          /\ MustBeRejected
          /\ calls = <<>>
          /\ songs = <<>>
          /\ results = <<>>
          /\ playlistId = ""

\* rejected for the missing API key, the three fields being in order
C36_Witness ==
    /\ pc = "failed"
    /\ BlankFields = {}
    /\ error = ValidationError(Some([field |-> "SETLISTFM_API_KEY"]))
    /\ calls = <<>>

\* C37: when handleCreatePlaylist has returned a result, the builder has
\* issued the identity call, the create-playlist call and, when there is a
\* track, the add-tracks call, each once and each answered with success;
\* the playlistId of the result is the id the create-playlist call came
\* back with, the tracks were added to that playlist, and the result is the
\* one createPlaylist built: that id, the number of tracks and the year.
C37_ResultOnlyAfterSuccess ==
    pc = "done" =>
        /\ Len(BuilderCalls) = IF trackUris = <<>> THEN 2 ELSE 3
        /\ \A k \in DOMAIN BuilderCalls :
              /\ BuilderCalls[k].op = BuilderOrder[k]
              /\ BuilderCalls[k].reply.kind = "ok"
        /\ result.playlistId = BuilderCalls[2].id
        /\ \A k \in DOMAIN AddTracksCalls :
              AddTracksCalls[k].playlistId = BuilderCalls[2].id
        /\ result = [playlistId |-> BuilderCalls[2].id,
                     tracksAdded |-> Len(trackUris), year |-> actualYear]
        /\ error = NoError

\* a result for the second playlist id, with two tracks added
C37_Witness ==
    /\ pc = "done"
    /\ result.playlistId = "pl2"
    /\ Len(BuilderCalls) = 3
    /\ result.tracksAdded = 2

\* handleCreatePlaylist was rejected by getAverageSetlist: it has failed
\* with a fetch as its last call
GetAverageSetlistFailed ==
    /\ pc = "failed"
    /\ calls # <<>>
    /\ LastCall.op = "fetchSetlist"

\* C38: what getAverageSetlist throws is an ExternalAPIError naming
\* setlist.fm or a DataNotFoundError.  It is an ExternalAPIError exactly
\* when its last fetch threw, be it an axios error or any other exception
\* of the fetch or of the counting of a response that cannot be read, and a
\* DataNotFoundError, with the two years as details, exactly when both
\* fetches succeeded without songs.
C38_FetchFailureKinds ==
    GetAverageSetlistFailed =>
        /\ stageError.name \in {"ExternalAPIError", "DataNotFoundError"}
        /\ LastCall.reply.kind # "ok" =>
              /\ stageError.name = "ExternalAPIError"
              /\ stageError.serviceName = "setlist.fm"
        /\ LastCall.reply.kind = "ok" =>
              /\ Len(FetchCalls) = 2
              /\ \A k \in 1..2 :
                    /\ FetchCalls[k].reply.kind = "ok"
                    /\ FetchCalls[k].songs = <<>>
              /\ stageError =
                    DataNotFoundError(Some([artistId |-> request.artistId,
                                            targetYear |-> targetYear,
                                            retryYear |-> targetYear - 1]))

\* the response for the year before cannot be read
C38_Witness ==
    /\ GetAverageSetlistFailed
    /\ Len(FetchCalls) = 2
    /\ LastCall.reply.kind = "otherError"
    /\ stageError = ExternalAPIError("setlist.fm", None)

\* the invocation has settled: a result was returned or an error thrown
Settled ==
    \/ pc = "done" /\ result # NoResult /\ error = NoError
    \/ pc = "failed" /\ error # NoError /\ result = NoResult

CallsOf(o) == SelectSeq(calls, LAMBDA c : c.op = o)

\* C39: an invocation whose calls are all answered settles, with a result
\* or with an error, and at no time has it issued more than two setlist
\* fetches, more searches than there are songs in the list, or more than
\* one identity call, one create-playlist call and one add-tracks call.
C39_RunTerminates ==
    /\ <>Settled
    /\ [](/\ Len(CallsOf("fetchSetlist")) <= 2
          /\ Len(CallsOf("search")) <= Len(songs)
          /\ Len(CallsOf("getUser")) <= 1
          /\ Len(CallsOf("createPlaylist")) <= 1
          /\ Len(CallsOf("addTracks")) <= 1
          /\ Len(calls) <= Len(songs) + 5)

\* settled with a result after the most calls a list of three songs allows
C39_Witness ==
    /\ Settled
    /\ pc = "done"
    /\ Len(songs) = 3
    /\ Len(calls) = 8

\* C40: the body of every error response carries a code that is not empty:
\* the name of the class of the error answered, without its Error suffix,
\* in upper case.
C40_ErrorCodeNeverEmpty ==
    IsErrorResponse =>
        /\ httpResponse.body.error.code # <<>>
        /\ httpResponse.body.error.code =
              ToUpperCase(DropErrorSuffix(NameText(AnsweredKind)))
====
